---------------------------- MODULE Spec2Model ----------------------------
(* A model of plexurl (src/plexurl/plexurl.py): one invocation of main(),  *)
(* from argument parsing to exit, with the Plex client library, the DNS    *)
(* resolver, the terminal and the user as a nondeterministic environment.  *)
(* Strings of the program are TLA+ strings; the text functions (re.match,  *)
(* int, zfill, format, truncate, the `in` substring test) are operators    *)
(* that compute what the Python computes.                                  *)
EXTENDS Integers, Sequences, FiniteSets, TLC

(***************************************************************************)
(* Bounds of the model.                                                    *)
(***************************************************************************)
MaxRes == 2        \* resources visible to the signed-in account
MaxResults == 2    \* results of a library search / titles of a listing
MaxSeasons == 2    \* seasons of a show
MaxEpisodes == 2   \* episodes of a season
MaxDepth == 1      \* nested lookup_episode calls after a selection
MaxItems == 3      \* items handed to print_multicolumn
MaxWidth == 5      \* terminal width in columns

VARIABLES
  args,        \* argparse namespace of main (line 284)
  isatty,      \* os.isatty(sys.stdout.fileno())
  pc,          \* position in the program
  status,      \* "running", "returned" (main returned) or "raised"
  code,        \* the exit code handed to sys.exit once returned
  exc,         \* the exception that ended the run, "" if none
  stdout,      \* what was written to the real stdout, in order
  stderr,      \* the kinds of text written to stderr so far
  steps,       \* the calls get_server has made, in order (dies with its frame)
  queries,     \* the catalog queries made, in order
  username,    \* local of get_server: is a username at hand
  password,    \* local of get_server: is a password at hand
  servername,  \* local of get_server: "" for None / empty
  resources,   \* user.resources(): the names, in listing order
  ip,          \* local of get_server: the target IP
  idx,         \* loop position of `for srv in user.resources()`
  server,      \* "unset", "PlexServer" or "10"
  site,        \* the call site choose() returns to
  options,     \* argument of choose()
  sel,         \* return value of choose()
  caller,      \* source line of the print(...getStreamUrl()) in progress
  showarg,     \* lookup_episode's show: a name, or the Show object
  show,        \* the Show object once fetched
  episode,     \* lookup_episode's episode argument
  depth,       \* nesting of lookup_episode
  item,        \* return value of lookup_movie / lookup_episode
  alist,       \* print_multicolumn: its argument
  term,        \* print_multicolumn: what get_terminal_size finds
  out          \* print_multicolumn: what it printed, or how it failed

vars == << args, isatty, pc, status, code, exc, stdout, stderr, steps,
           queries, username, password, servername, resources, ip, idx, server,
           site, options, sel, caller, showarg, show, episode, depth, item,
           alist, term, out >>

gsVars == << username, password, servername, resources, ip, idx, server,
            steps >>
navVars == << site, options, sel, caller, showarg, show, episode, depth, item >>
colVars == << alist, term, out >>

(***************************************************************************)
(* Text helpers.                                                           *)
(***************************************************************************)
Char(s, i) == SubSeq(s, i, i)

DigitChars == {"0", "1", "2", "3", "4", "5", "6", "7", "8", "9"}

IsDigit(c) == c \in DigitChars

DigitVal(c) == CHOOSE d \in 0..9 : Char("0123456789", d + 1) = c

\* int(s) for a string of decimal digits
RECURSIVE PyInt(_)
PyInt(s) ==
  IF Len(s) = 0 THEN 0
  ELSE 10 * PyInt(SubSeq(s, 1, Len(s) - 1)) + DigitVal(Char(s, Len(s)))

\* str(n) for n >= 0
RECURSIVE PyStr(_)
PyStr(n) ==
  IF n < 10 THEN Char("0123456789", n + 1)
  ELSE PyStr(n \div 10) \o Char("0123456789", (n % 10) + 1)

\* s.zfill(w)
RECURSIVE ZFill(_, _)
ZFill(s, w) == IF Len(s) >= w THEN s ELSE ZFill("0" \o s, w)

\* `a in b` for strings
Contains(b, a) ==
  \E i \in 0..(Len(b) - Len(a)) : SubSeq(b, i + 1, i + Len(a)) = a

\* number of leading digits of s from position i on
RECURSIVE DigitRun(_, _)
DigitRun(s, i) ==
  IF i <= Len(s) /\ IsDigit(Char(s, i)) THEN 1 + DigitRun(s, i + 1) ELSE 0


(***************************************************************************)
(* The environment's value sets.                                           *)
(***************************************************************************)
ResourceNames == {"home", "office"}

\* what gethostbyname may answer
TargetIPs == {"10.0.0.1", "10.0.0.2"}

\* the addresses a connected resource may report in its base URI
ReportedIPs == {"10.0.0.1", "10.0.0.12", "10.0.0.2"}

\* server.baseuri of a resource connected at address a
BaseUri(a) == "http://" \o a \o ":32400"

\* sequences over S of length 0..n
SeqsUpTo(S, n) == UNION {[1..k -> S] : k \in 0..n}

\* one call to the outside, as recorded in steps
Ev(op) == [op |-> op, ok |-> TRUE, i |-> 0, ip |-> ""]

(***************************************************************************)
(* How main() ends.                                                        *)
(***************************************************************************)
\* `return c` from main: sys.exit(c)
Return(c) == /\ status' = "returned"
             /\ code' = c
             /\ pc' = "exit"
             /\ UNCHANGED exc

\* info(msg) (line 105) and the prompt text of prompt(msg) / getpass(msg)
\* (lines 115-116): both write to the error stream, of which the model
\* keeps the kinds of text written so far
Info(err, msg) == err \cup {"info"}
Prompt(err, msg) == err \cup {"prompt"}

\* an exception no handler of main catches
Raise(e) == /\ status' = "raised"
            /\ exc' = e
            /\ pc' = "exit"
            /\ UNCHANGED code

(***************************************************************************)
(* get_server (lines 120-164)                                              *)
(***************************************************************************)
\* where get_server goes after PlexServer(uri): `return` on success,
\* `except NotFound: pass` otherwise
AfterAnonBug(ok) == "username"
AfterAnon(ok) == IF ok THEN "dispatch" ELSE "username"

\* try: return PlexServer(uri) / except NotFound: pass
PlexServerAnon ==
  /\ pc = "get_server"
  /\ \E ok \in BOOLEAN :
       /\ steps' = Append(steps, [Ev("PlexServer") EXCEPT !.ok = ok])
       /\ server' = IF ok /\ AfterAnon(ok) = "dispatch" THEN "PlexServer" ELSE server
       /\ pc' = AfterAnon(ok)
  /\ UNCHANGED << args, isatty, status, code, exc, stdout, stderr,
                  username, password, servername, resources, ip, idx >>
  /\ UNCHANGED queries /\ UNCHANGED navVars /\ UNCHANGED colVars

\* lines 135-137: the hint, then the username from the argument or a prompt
\* (argparse already took $PLEX_USERNAME as the argument's default)
ResolveUsername ==
  /\ pc = "username"
  /\ LET hinted == IF ~username /\ ~password
                   THEN Info(stderr, "Could not get server object")
                   ELSE stderr
     IN IF username
        THEN /\ stderr' = hinted
             /\ pc' = "password"
             /\ UNCHANGED << steps, username, status, code, exc >>
        ELSE /\ steps' = Append(steps, Ev("prompt_username"))
             /\ \/ /\ stderr' = Prompt(hinted, "Plex username: ")
                   /\ username' = TRUE
                   /\ pc' = "password"
                   /\ UNCHANGED << status, code, exc >>
                \/ /\ stderr' = Info(Prompt(hinted, "Plex username: "),
                                      "Aborting.")
                   /\ Return(1)
                   /\ UNCHANGED username
  /\ UNCHANGED << args, isatty, stdout, password, servername, resources,
                  ip, idx, server >>
  /\ UNCHANGED queries /\ UNCHANGED navVars /\ UNCHANGED colVars

\* line 138: the password from the argument or getpass
ResolvePassword ==
  /\ pc = "password"
  /\ IF password
     THEN /\ pc' = "signin"
          /\ UNCHANGED << steps, stderr, password, status, code, exc >>
     ELSE /\ steps' = Append(steps, Ev("getpass"))
          /\ \/ /\ stderr' = Prompt(stderr, "Plex password: ")
                /\ password' = TRUE
                /\ pc' = "signin"
                /\ UNCHANGED << status, code, exc >>
             \/ /\ stderr' = Info(Prompt(stderr, "Plex password: "), "Aborting.")
                /\ Return(1)
                /\ UNCHANGED password
  /\ UNCHANGED << args, isatty, stdout, username, servername, resources,
                  ip, idx, server >>
  /\ UNCHANGED queries /\ UNCHANGED navVars /\ UNCHANGED colVars

\* line 139: user = MyPlexUser.signin(username, password); a refused sign-in
\* raises and nothing catches it
SignIn ==
  /\ pc = "signin"
  /\ \/ /\ steps' = Append(steps, Ev("signin"))
        /\ \E rs \in SeqsUpTo(ResourceNames, MaxRes) : resources' = rs
        /\ pc' = "servername"
        /\ UNCHANGED << status, code, exc >>
     \/ /\ steps' = Append(steps, [Ev("signin") EXCEPT !.ok = FALSE])
        /\ Raise("Unauthorized")
        /\ UNCHANGED resources
  /\ UNCHANGED << args, isatty, stdout, stderr, username, password,
                  servername, ip, idx, server >>
  /\ UNCHANGED queries /\ UNCHANGED navVars /\ UNCHANGED colVars

\* lines 140-142: without a server name, list the names and prompt for one
AskServerName ==
  /\ pc = "servername"
  /\ IF servername # ""
     THEN /\ pc' = "named"
          /\ UNCHANGED << steps, stderr, servername, status, code, exc >>
     ELSE /\ steps' = steps \o << Ev("resources"), Ev("prompt_servername") >>
          /\ \/ /\ stderr' = Prompt(Info(stderr, "Servers: "),
                                  "Please enter server name")
                /\ \E typed \in {""} \cup ResourceNames : servername' = typed
                /\ pc' = "named"
                /\ UNCHANGED << status, code, exc >>
             \/ /\ stderr' = Info(Prompt(Info(stderr, "Servers: "),
                                       "Please enter server name"),
                                "Aborting.")
                /\ Return(1)
                /\ UNCHANGED servername
  /\ UNCHANGED << args, isatty, stdout, username, password, resources,
                  ip, idx, server >>
  /\ UNCHANGED queries /\ UNCHANGED navVars /\ UNCHANGED colVars

\* user.getResource(name): the resource of that name, if the account has one
HasResource(name) == \E i \in 1..Len(resources) : resources[i] = name

\* lines 143-146: return user.getResource(servername).connect(), or go on
\* to the search. A name the account does not have gives no resource
\* (the library raises NotFound or hands back None, whose .connect fails),
\* and a refused connection raises NotFound: get_server catches neither.
NamedConnect ==
  /\ pc = "named"
  /\ IF servername # ""
     THEN /\ UNCHANGED stderr
          /\ IF HasResource(servername)
             THEN \E up \in BOOLEAN :
                    /\ steps' = steps \o << Ev("getResource"),
                                   [Ev("connect_named") EXCEPT !.ok = up] >>
                    /\ IF up
                       THEN /\ server' = "PlexServer"
                            /\ pc' = "dispatch"
                            /\ UNCHANGED << status, code, exc >>
                       ELSE /\ Raise("NotFound")
                            /\ UNCHANGED server
             ELSE /\ steps' = Append(steps, [Ev("getResource") EXCEPT !.ok = FALSE])
                  /\ \E e \in {"NotFound", "AttributeError"} : Raise(e)
                  /\ UNCHANGED server
     ELSE /\ stderr' = Info(stderr, "OK, beginning the search process.")
          /\ pc' = "resolve"
          /\ UNCHANGED << steps, server, status, code, exc >>
  /\ UNCHANGED << args, isatty, stdout, username, password, servername,
                  resources, ip, idx >>
  /\ UNCHANGED queries /\ UNCHANGED navVars /\ UNCHANGED colVars

\* lines 148-154: the host of the URI, resolved; an unresolvable host
\* raises socket.gaierror
ResolveHost ==
  /\ pc = "resolve"
  /\ \/ /\ \E a \in TargetIPs :
             /\ ip' = a
             /\ steps' = Append(steps, [Ev("gethostbyname") EXCEPT !.ip = a])
        /\ stderr' = Info(Info(stderr, "Getting IP for"), "Got IP")
        /\ idx' = 1
        /\ pc' = "search"
        /\ UNCHANGED << status, code, exc >>
     \/ /\ steps' = Append(steps, [Ev("gethostbyname") EXCEPT !.ok = FALSE])
        /\ stderr' = Info(stderr, "Getting IP for")
        /\ Raise("gaierror")
        /\ UNCHANGED << ip, idx >>
  /\ UNCHANGED << args, isatty, stdout, username, password, servername,
                  resources, server >>
  /\ UNCHANGED queries /\ UNCHANGED navVars /\ UNCHANGED colVars

\* line 158: `if ip in server.baseuri`
IpMatches(target, baseuri) == Contains(baseuri, target)

\* lines 155-162: one turn of `for srv in user.resources()`
SearchConnect ==
  /\ pc = "search"
  /\ idx <= Len(resources)
  /\ \E up \in BOOLEAN, a \in ReportedIPs :
       /\ steps' = Append(steps, [op |-> "connect", ok |-> up, i |-> idx,
                                  ip |-> IF up THEN a ELSE ""])
       /\ IF up /\ IpMatches(ip, BaseUri(a))
          THEN /\ stderr' = Info(stderr, "Found server")
               /\ server' = "PlexServer"
               /\ pc' = "dispatch"
               /\ UNCHANGED idx
          ELSE /\ stderr' = IF up THEN stderr
                            ELSE Info(stderr, "Couldn't connect")
               /\ idx' = idx + 1
               /\ UNCHANGED << server, pc >>
  /\ UNCHANGED << args, isatty, status, code, exc, stdout, username,
                  password, servername, resources, ip >>
  /\ UNCHANGED queries /\ UNCHANGED navVars /\ UNCHANGED colVars

\* lines 163-164: the list is exhausted
SearchEnd ==
  /\ pc = "search"
  /\ idx > Len(resources)
  /\ stderr' = Info(stderr, "Couldn't find server")
  /\ server' = "10"
  /\ pc' = "dispatch"
  /\ UNCHANGED << args, isatty, status, code, exc, stdout, steps, username,
                  password, servername, resources, ip, idx >>
  /\ UNCHANGED queries /\ UNCHANGED navVars /\ UNCHANGED colVars

(***************************************************************************)
(* The catalog: movies and shows are the library's business (a lookup      *)
(* finds the title or not, a search gives some number of results); the     *)
(* seasons and episodes of the show at hand are modelled in full.          *)
(***************************************************************************)
\* a Show object: seasons numbered first, first+1, ... (first = 0 when the
\* show has a "Specials" season), each with episodes 1..ne
ShowShapes == [first : {0, 1}, ns : 1..MaxSeasons, ne : 1..MaxEpisodes]

NoShow == [first |-> 0, ns |-> 0, ne |-> 0]

EpisodeTitle(j) ==
  IF j = 2 THEN "e2 the one with a very long title" ELSE "e" \o PyStr(j)

\* an Episode object; parentIndex and index are strings, as the XML gives them
Episode(n, j) ==
  [parentIndex |-> PyStr(n), index |-> PyStr(j), title |-> EpisodeTitle(j)]

NoEpisode == [parentIndex |-> "", index |-> "", title |-> ""]

\* show.seasons(): the season numbers, in order
Seasons(sh) == [i \in 1..sh.ns |-> sh.first + i - 1]

\* season.episodes()
SeasonEpisodes(sh, n) == [j \in 1..sh.ne |-> Episode(n, j)]

\* show.episodes(): every episode, season by season
RECURSIVE EpisodesFrom(_, _)
EpisodesFrom(sh, i) ==
  IF i > sh.ns THEN <<>>
  ELSE SeasonEpisodes(sh, Seasons(sh)[i]) \o EpisodesFrom(sh, i + 1)

AllEpisodes(sh) == EpisodesFrom(sh, 1)

\* truncate (line 83)
Truncate(text) ==
  IF Len(text) < 30 THEN text ELSE SubSeq(text, 1, 25) \o "..."

\* "S{}E{} {}".format(ep.parentIndex.zfill(2), ep.index.zfill(2),
\*                    truncate(ep.title))  (lines 215, 269)
EpisodeLabel(ep) ==
  "S" \o ZFill(ep.parentIndex, 2) \o "E" \o ZFill(ep.index, 2) \o " "
      \o Truncate(ep.title)

\* re.match("S(\d+?)E(\d+)", s) (line 209): the two groups, or no match
ReMatch(s) ==
  LET d1 == DigitRun(s, 2)
      d2 == DigitRun(s, 3 + d1)
  IN IF /\ Len(s) >= 1
        /\ Char(s, 1) = "S"
        /\ d1 >= 1
        /\ 2 + d1 <= Len(s)
        /\ Char(s, 2 + d1) = "E"
        /\ d2 >= 1
     THEN [ok |-> TRUE, g1 |-> SubSeq(s, 2, 1 + d1),
           g2 |-> SubSeq(s, 3 + d1, 2 + d1 + d2)]
     ELSE [ok |-> FALSE, g1 |-> "", g2 |-> ""]

\* show.seasons()[s].episodes()[e] (line 211), Python's 0-based list
\* indexing; an index past the end raises IndexError
EpisodeAt(sh, s, e) ==
  IF s + 1 > Len(Seasons(sh)) \/ e + 1 > sh.ne
  THEN [ok |-> FALSE, ep |-> NoEpisode]
  ELSE [ok |-> TRUE, ep |-> SeasonEpisodes(sh, Seasons(sh)[s + 1])[e + 1]]

\* show.episode(title): the first episode of that title, else NotFound
TitleHits(sh, title) ==
  SelectSeq(AllEpisodes(sh), LAMBDA ep : ep.title = title)

\* [... for ep in show.episodes() if episode in ep.title] (line 215)
Candidates(sh, text) ==
  SelectSeq(AllEpisodes(sh), LAMBDA ep : Contains(ep.title, text))

\* values handed to and returned by choose()
None == [kind |-> "None", str |-> ""]
Str(s) == [kind |-> "str", str |-> s]
Obj == [kind |-> "obj", str |-> ""]

\* Python truth of a selection
Truthy(v) == v.kind = "obj" \/ (v.kind = "str" /\ v.str # "")

Labels(eps) == [i \in 1..Len(eps) |-> Str(EpisodeLabel(eps[i]))]

\* the titles of a listing of n items
Titles(n) == [i \in 1..n |-> Str("t" \o PyStr(i))]

\* n search results: Video objects
Objects(n) == [i \in 1..n |-> Obj]

\* return values of lookup_movie / lookup_episode
NoItem == [kind |-> "none", ep |-> NoEpisode]
Code50 == [kind |-> "50", ep |-> NoEpisode]
Movie == [kind |-> "movie", ep |-> NoEpisode]
EpisodeItem(ep) == [kind |-> "episode", ep |-> ep]

\* what the user may type at the selection prompts
TitleInputs == {"", "t1"}
EpisodeInputs == {"", "S01E01", "e"}

\* -e values of the command line
EpisodeArgs == {"S01E01", "e1", "e", "zz"}

\* one record of stdout
Table == [kind |-> "table", res |-> "", ep |-> NoEpisode]
Url(res, it) == [kind |-> "url", res |-> res, ep |-> it.ep]

(***************************************************************************)
(* main (lines 273-299), after get_server has returned                     *)
(***************************************************************************)
\* the run goes on at `next`
Go(next) == /\ pc' = next
            /\ UNCHANGED << status, code, exc >>

\* line 287: type(server) is PlexServer
IsPlexServerBug(s) == TRUE
IsPlexServer(s) == s = "PlexServer"

\* lines 287-296; get_server has returned, its locals are gone
Dispatch ==
  /\ pc = "dispatch"
  /\ username' = FALSE /\ password' = FALSE /\ servername' = ""
  /\ resources' = <<>> /\ ip' = "" /\ idx' = 1 /\ steps' = <<>>
  /\ IF ~IsPlexServer(server)
     THEN /\ stderr' = Info(stderr, "Aborting.")
          /\ Return(10)
     ELSE IF args.movie
     THEN /\ Go("main_movie")
          /\ UNCHANGED stderr
     ELSE IF args.show
     THEN /\ Go("main_show")
          /\ UNCHANGED stderr
     ELSE /\ stderr' = Info(stderr, "You need to specify either -m or -s")
          /\ Return(5)
  /\ UNCHANGED << args, isatty, stdout, queries, server >>
  /\ UNCHANGED navVars /\ UNCHANGED colVars

\* main_movie / main_show returned: main falls off its end, sys.exit(None)
MainEnd ==
  /\ pc = "main_done"
  /\ Return(0)
  /\ UNCHANGED << args, isatty, stdout, stderr, queries >>
  /\ UNCHANGED gsVars /\ UNCHANGED navVars /\ UNCHANGED colVars

(***************************************************************************)
(* choose (lines 85-97) and prompt (lines 107-118)                         *)
(***************************************************************************)
\* the stream print_multicolumn's print() writes to (lines 59, 71)
ListingStream == "stdout"

\* lines 92-96: one option is selected at once; otherwise the options are
\* printed by print_multicolumn and the prompt follows on an interactive
\* terminal. print_multicolumn raises on an empty list (max() of nothing)
\* and, where the library's Video objects have no len(), on search
\* results; on a list of titles it is taken to print (what it does with
\* empty titles and odd terminals is SpecCol's subject).
ChooseList ==
  /\ pc = "choose"
  /\ IF Len(options) = 1
     THEN /\ stderr' = Info(stderr, "Selecting")
          /\ sel' = options[1]
          /\ Go("chosen")
          /\ UNCHANGED stdout
     ELSE IF Len(options) = 0
     THEN /\ Raise("ValueError")
          /\ UNCHANGED << stdout, stderr, sel >>
     ELSE \/ /\ options[1].kind = "obj"
             /\ Raise("TypeError")
             /\ UNCHANGED << stdout, stderr, sel >>
          \/ /\ stdout' = IF ListingStream = "stdout"
                          THEN Append(stdout, Table) ELSE stdout
             /\ stderr' = IF ListingStream = "stdout"
                          THEN stderr ELSE Info(stderr, "table")
             /\ IF isatty
                THEN /\ Go("choose_prompt")
                     /\ UNCHANGED sel
                ELSE /\ sel' = None
                     /\ Go("chosen")
  /\ UNCHANGED << args, isatty, queries, site, options, caller, showarg, show,
                  episode, depth, item >>
  /\ UNCHANGED gsVars /\ UNCHANGED colVars

\* line 97: return prompt(q); the prompt text goes to stderr (line 115)
ChoosePrompt ==
  /\ pc = "choose_prompt"
  /\ \/ /\ stderr' = Prompt(stderr, "Select")
        /\ \E typed \in IF site \in {"episode_list", "episode_search"}
                        THEN EpisodeInputs ELSE TitleInputs :
             sel' = Str(typed)
        /\ Go("chosen")
     \/ /\ stderr' = Info(Prompt(stderr, "Select"), "Aborting.")
        /\ Return(1)
        /\ UNCHANGED sel
  /\ UNCHANGED << args, isatty, stdout, queries, site, options, caller,
                  showarg, show, episode, depth, item >>
  /\ UNCHANGED gsVars /\ UNCHANGED colVars

(***************************************************************************)
(* main_movie and lookup_movie (lines 166-185, 222-236)                    *)
(***************************************************************************)
\* lines 231-234
MainMovie ==
  /\ pc = "main_movie"
  /\ IF args.name
     THEN /\ caller' = 232
          /\ Go("lookup_movie")
          /\ UNCHANGED << queries, options, site >>
     ELSE /\ \E n \in 0..MaxResults : options' = Titles(n)
          /\ queries' = Append(queries, "all")
          /\ site' = "movie_list"
          /\ Go("choose")
          /\ UNCHANGED caller
  /\ UNCHANGED << args, isatty, stdout, stderr, sel, showarg, show, episode,
                  depth, item >>
  /\ UNCHANGED gsVars /\ UNCHANGED colVars

\* lines 235-236: `if selection:`
MovieSelected ==
  /\ pc = "chosen" /\ site = "movie_list"
  /\ IF Truthy(sel)
     THEN /\ caller' = 236
          /\ Go("lookup_movie")
     ELSE /\ Go("main_done")
          /\ UNCHANGED caller
  /\ UNCHANGED << args, isatty, stdout, stderr, queries, site, options, sel,
                  showarg, show, episode, depth, item >>
  /\ UNCHANGED gsVars /\ UNCHANGED colVars

\* lines 177-179: the exact title, or NotFound
LookupMovieGet ==
  /\ pc = "lookup_movie"
  /\ \E found \in BOOLEAN :
       /\ queries' = Append(queries, "get")
       /\ IF found
          THEN /\ item' = Movie
               /\ Go("print_url")
          ELSE /\ Go("movie_search")
               /\ UNCHANGED item
  /\ UNCHANGED << args, isatty, stdout, stderr, site, options, sel, caller,
                  showarg, show, episode, depth >>
  /\ UNCHANGED gsVars /\ UNCHANGED colVars

\* lines 180-185
LookupMovieSearch ==
  /\ pc = "movie_search"
  /\ queries' = Append(queries, "search")
  /\ \E n \in 0..MaxResults :
       IF n > 0
       THEN /\ options' = Objects(n)
            /\ site' = "movie_search"
            /\ Go("choose")
            /\ UNCHANGED << stderr, item >>
       ELSE /\ stderr' = Info(stderr, "No results")
            /\ item' = Code50
            /\ Go("print_url")
            /\ UNCHANGED << options, site >>
  /\ UNCHANGED << args, isatty, stdout, sel, caller, showarg, show, episode,
                  depth >>
  /\ UNCHANGED gsVars /\ UNCHANGED colVars

\* line 182: section.get(<what choose returned>); the library fails on
\* None, and raises NotFound when it finds nothing: inside the except
\* block nothing catches either
MovieGetChosen ==
  /\ pc = "chosen" /\ site = "movie_search"
  /\ \E found \in BOOLEAN :
       /\ queries' = Append(queries, "get")
       /\ IF sel = None
          THEN /\ Raise("AttributeError")
               /\ UNCHANGED item
          ELSE IF found
          THEN /\ item' = Movie
               /\ Go("print_url")
          ELSE /\ Raise("NotFound")
               /\ UNCHANGED item
  /\ UNCHANGED << args, isatty, stdout, stderr, site, options, sel, caller,
                  showarg, show, episode, depth >>
  /\ UNCHANGED gsVars /\ UNCHANGED colVars

\* the videoResolution the print at source line `line` hands to
\* getStreamUrl: lines 232, 236 and 267 call getStreamUrl() bare
UrlResolution(line) == ""

\* print(<item>.getStreamUrl(...)) at lines 232, 236, 267, 271: the code 50
\* has no getStreamUrl (AttributeError); line 271 reads args.resolution,
\* and main_episode has no `args` (NameError)
PrintStreamUrl ==
  /\ pc = "print_url"
  /\ IF item.kind = "50"
     THEN /\ Raise("AttributeError")
          /\ UNCHANGED stdout
     ELSE IF caller = 271
     THEN /\ Raise("NameError")
          /\ UNCHANGED stdout
     ELSE /\ stdout' = Append(stdout, Url(UrlResolution(caller), item))
          /\ Go("main_done")
  /\ UNCHANGED << args, isatty, stderr, queries >>
  /\ UNCHANGED gsVars /\ UNCHANGED navVars /\ UNCHANGED colVars

(***************************************************************************)
(* main_show, main_episode and lookup_episode (lines 187-220, 238-271)     *)
(***************************************************************************)
\* lines 247-250
MainShow ==
  /\ pc = "main_show"
  /\ IF args.name
     THEN /\ episode' = IF args.episode = "" THEN None ELSE Str(args.episode)
          /\ showarg' = "str"
          /\ Go("main_episode")
          /\ UNCHANGED << queries, options, site >>
     ELSE /\ \E n \in 0..MaxResults : options' = Titles(n)
          /\ queries' = Append(queries, "all")
          /\ site' = "show_list"
          /\ Go("choose")
          /\ UNCHANGED << episode, showarg >>
  /\ UNCHANGED << args, isatty, stdout, stderr, sel, caller, show, depth,
                  item >>
  /\ UNCHANGED gsVars /\ UNCHANGED colVars

\* lines 251-252: `if selection: main_episode(server, selection, None)`
ShowSelected ==
  /\ pc = "chosen" /\ site = "show_list"
  /\ IF Truthy(sel)
     THEN /\ episode' = None
          /\ showarg' = "str"
          /\ Go("main_episode")
     ELSE /\ Go("main_done")
          /\ UNCHANGED << episode, showarg >>
  /\ UNCHANGED << args, isatty, stdout, stderr, queries, site, options, sel,
                  caller, show, depth, item >>
  /\ UNCHANGED gsVars /\ UNCHANGED colVars

\* lines 266-269: with an episode, look it up; without, fetch the show
\* (NotFound is not caught here) and list its episodes
MainEpisode ==
  /\ pc = "main_episode"
  /\ IF Truthy(episode)
     THEN /\ caller' = 267
          /\ depth' = 0
          /\ Go("lookup_episode")
          /\ UNCHANGED << queries, show, options, site >>
     ELSE \/ /\ queries' = queries \o << "get", "episodes" >>
             /\ \E sh \in ShowShapes :
                  /\ show' = sh
                  /\ options' = Labels(AllEpisodes(sh))
             /\ site' = "episode_list"
             /\ Go("choose")
             /\ UNCHANGED << caller, depth >>
          \/ /\ queries' = Append(queries, "get")
             /\ Raise("NotFound")
             /\ UNCHANGED << show, options, site, caller, depth >>
  /\ UNCHANGED << args, isatty, stdout, stderr, sel, showarg, episode, item >>
  /\ UNCHANGED gsVars /\ UNCHANGED colVars

\* lines 270-271: `if selection:` lookup_episode(server, show, selection)
EpisodeSelected ==
  /\ pc = "chosen" /\ site = "episode_list"
  /\ IF Truthy(sel)
     THEN /\ caller' = 271
          /\ episode' = sel
          /\ depth' = 0
          /\ Go("lookup_episode")
     ELSE /\ Go("main_done")
          /\ UNCHANGED << caller, episode, depth >>
  /\ UNCHANGED << args, isatty, stdout, stderr, queries, site, options, sel,
                  showarg, show, item >>
  /\ UNCHANGED gsVars /\ UNCHANGED colVars

\* lines 200-202: a Show object is taken as it is, a name is looked up
LookupEpisodeGetShow ==
  /\ pc = "lookup_episode"
  /\ IF showarg = "Show"
     THEN /\ Go("ep_match")
          /\ UNCHANGED << queries, show, showarg >>
     ELSE \/ /\ queries' = Append(queries, "get")
             /\ \E sh \in ShowShapes : show' = IF show = NoShow THEN sh ELSE show
             /\ showarg' = "Show"
             /\ Go("ep_match")
          \/ /\ show = NoShow
             /\ queries' = Append(queries, "get")
             /\ Go("show_search")
             /\ UNCHANGED << show, showarg >>
  /\ UNCHANGED << args, isatty, stdout, stderr, site, options, sel, caller,
                  episode, depth, item >>
  /\ UNCHANGED gsVars /\ UNCHANGED colVars

\* lines 203-208
LookupEpisodeSearchShow ==
  /\ pc = "show_search"
  /\ queries' = Append(queries, "search")
  /\ \E n \in 0..MaxResults :
       IF n > 0
       THEN /\ options' = Objects(n)
            /\ site' = "show_search"
            /\ Go("choose")
            /\ UNCHANGED << stderr, item >>
       ELSE /\ stderr' = Info(stderr, "No results")
            /\ item' = Code50
            /\ Go("print_url")
            /\ UNCHANGED << options, site >>
  /\ UNCHANGED << args, isatty, stdout, sel, caller, showarg, show, episode,
                  depth >>
  /\ UNCHANGED gsVars /\ UNCHANGED colVars

\* line 205: show = section.get(<what choose returned>)
ShowGetChosen ==
  /\ pc = "chosen" /\ site = "show_search"
  /\ \E found \in BOOLEAN :
       /\ queries' = Append(queries, "get")
       /\ IF sel = None
          THEN /\ Raise("AttributeError")
               /\ UNCHANGED << show, showarg >>
          ELSE IF found
          THEN /\ \E sh \in ShowShapes : show' = sh
               /\ showarg' = "Show"
               /\ Go("ep_match")
          ELSE /\ Raise("NotFound")
               /\ UNCHANGED << show, showarg >>
  /\ UNCHANGED << args, isatty, stdout, stderr, site, options, sel, caller,
                  episode, depth, item >>
  /\ UNCHANGED gsVars /\ UNCHANGED colVars

\* lines 209-211: re.match on the episode argument (TypeError on None);
\* a match indexes the season and episode lists
LookupEpisodeMatch ==
  /\ pc = "ep_match"
  /\ IF episode = None
     THEN /\ Raise("TypeError")
          /\ UNCHANGED << queries, item >>
     ELSE LET m == ReMatch(episode.str)
              at == EpisodeAt(show, PyInt(m.g1), PyInt(m.g2))
          IN IF ~m.ok
             THEN /\ Go("ep_title")
                  /\ UNCHANGED << queries, item >>
             ELSE /\ queries' = queries \o << "seasons", "episodes" >>
                  /\ IF at.ok
                     THEN /\ item' = EpisodeItem(at.ep)
                          /\ Go("print_url")
                     ELSE /\ Raise("IndexError")
                          /\ UNCHANGED item
  /\ UNCHANGED << args, isatty, stdout, stderr, site, options, sel, caller,
                  showarg, show, episode, depth >>
  /\ UNCHANGED gsVars /\ UNCHANGED colVars

\* lines 212-220: the exact title; failing that the episodes whose title
\* contains the text, and lookup_episode again on what choose returns
LookupEpisodeTitle ==
  /\ pc = "ep_title"
  /\ LET hits == TitleHits(show, episode.str)
         results == Labels(Candidates(show, episode.str))
     IN IF hits # <<>>
        THEN /\ queries' = Append(queries, "episode")
             /\ item' = EpisodeItem(hits[1])
             /\ Go("print_url")
             /\ UNCHANGED << stderr, options, site >>
        ELSE /\ queries' = queries \o << "episode",
                                     "episodes" >>
             /\ IF results # <<>>
                THEN /\ options' = results
                     /\ site' = "episode_search"
                     /\ Go("choose")
                     /\ UNCHANGED << stderr, item >>
                ELSE /\ stderr' = Info(stderr, "No results")
                     /\ item' = Code50
                     /\ Go("print_url")
                     /\ UNCHANGED << options, site >>
  /\ UNCHANGED << args, isatty, stdout, sel, caller, showarg, show, episode,
                  depth >>
  /\ UNCHANGED gsVars /\ UNCHANGED colVars

\* line 217: return lookup_episode(server, show, <what choose returned>)
LookupEpisodeAgain ==
  /\ pc = "chosen" /\ site = "episode_search"
  /\ depth < MaxDepth
  /\ episode' = sel
  /\ depth' = depth + 1
  /\ Go("lookup_episode")
  /\ UNCHANGED << args, isatty, stdout, stderr, queries, site, options, sel,
                  caller, showarg, show, item >>
  /\ UNCHANGED gsVars /\ UNCHANGED colVars

(***************************************************************************)
(* One invocation of main                                                  *)
(***************************************************************************)
Args == [movie : BOOLEAN, show : BOOLEAN, name : BOOLEAN,
         episode : {""} \cup EpisodeArgs, resolution : {"", "640x480"},
         username : BOOLEAN, password : BOOLEAN,
         servername : {"", "home"}]

ColIdle == /\ alist = <<>>
           /\ term = [src |-> "ioctl", width |-> 0]
           /\ out = [kind |-> "none", rows |-> <<>>]

\* lines 284-286: the arguments are parsed and get_server is called with
\* the server, username, password and servername arguments
Init ==
  /\ args \in Args
  /\ isatty \in BOOLEAN
  /\ pc = "get_server"
  /\ status = "running" /\ code = 0 /\ exc = ""
  /\ stdout = <<>> /\ stderr = {} /\ steps = <<>> /\ queries = <<>>
  /\ username = args.username
  /\ password = args.password
  /\ servername = args.servername
  /\ resources = <<>> /\ ip = "" /\ idx = 1 /\ server = "unset"
  /\ site = "" /\ options = <<>> /\ sel = None /\ caller = 0
  /\ showarg = "str" /\ show = NoShow /\ episode = None /\ depth = 0
  /\ item = NoItem
  /\ ColIdle

Next ==
  \/ PlexServerAnon \/ ResolveUsername \/ ResolvePassword \/ SignIn
  \/ AskServerName \/ NamedConnect \/ ResolveHost \/ SearchConnect
  \/ SearchEnd \/ Dispatch \/ MainEnd \/ ChooseList \/ ChoosePrompt
  \/ MainMovie \/ MovieSelected \/ LookupMovieGet \/ LookupMovieSearch
  \/ MovieGetChosen \/ PrintStreamUrl \/ MainShow \/ ShowSelected
  \/ MainEpisode \/ EpisodeSelected \/ LookupEpisodeGetShow
  \/ LookupEpisodeSearchShow \/ ShowGetChosen \/ LookupEpisodeMatch
  \/ LookupEpisodeTitle \/ LookupEpisodeAgain

Spec == Init /\ [][Next]_vars

(***************************************************************************)
(* print_multicolumn (lines 46-71) and get_terminal_size (lines 28-44),    *)
(* as a function of the list and of what the terminal reports              *)
(***************************************************************************)
\* the display strings of the lists tried
ColStrings == {"", "a", "bb", "ccc"}

\* what get_terminal_size may find: the ioctl answers with a width, or it
\* fails and $COLUMNS / $LINES are set, or they are not
Terms == [src : {"ioctl"}, width : 0..MaxWidth]
           \cup [src : {"environ", "default"}, width : {0}]

\* get_terminal_size(80, 20)[0]: the ioctl's column count, else the string
\* os.environ['COLUMNS'], else the first of (25, 80)
TerminalWidth(t) ==
  IF t.src = "ioctl" THEN [num |-> TRUE, width |-> t.width]
  ELSE IF t.src = "environ" THEN [num |-> FALSE, width |-> 0]
  ELSE [num |-> TRUE, width |-> 25]

RECURSIVE MaxLen(_)
MaxLen(l) ==
  IF Len(l) = 1 THEN Len(l[1])
  ELSE LET m == MaxLen(Tail(l))
       IN IF Len(l[1]) > m THEN Len(l[1]) ELSE m

\* - ((-n) // k), for k > 0
CeilDiv(n, k) == - ((- n) \div k)

\* lines 66-68: the list cut into chunks of nrows (the columns), the last
\* padded with '', and zipped into rows
Grid(l, nrows) ==
  LET nchunks == CeilDiv(Len(l), nrows)
      cell(r, c) == IF (c - 1) * nrows + r <= Len(l)
                    THEN l[(c - 1) * nrows + r] ELSE ""
  IN [r \in 1..nrows |-> [c \in 1..nchunks |-> cell(r, c)]]

\* what print_multicolumn(l) does on a terminal t: the rows it prints, or
\* the exception it ends with
PrintMulticolumn(l, t) ==
  LET w == TerminalWidth(t) IN
  IF Len(l) = 0 THEN [kind |-> "ValueError", rows |-> <<>>]
  ELSE IF ~w.num THEN [kind |-> "TypeError", rows |-> <<>>]
  ELSE IF MaxLen(l) = 0 THEN [kind |-> "ZeroDivisionError", rows |-> <<>>]
  ELSE LET ncols0 == w.width \div MaxLen(l) IN
       IF ncols0 = 0
       THEN [kind |-> "lines", rows |-> [i \in 1..Len(l) |-> << l[i] >>]]
       ELSE LET nrows == CeilDiv(Len(l), ncols0)
                ncols == CeilDiv(Len(l), nrows)
                rows == Grid(l, nrows)
            IN IF Len(rows[1]) = ncols
               THEN [kind |-> "table", rows |-> rows]
               ELSE [kind |-> "Exception", rows |-> <<>>]

\* one call of print_multicolumn
CallPrintMulticolumn ==
  /\ pc = "print_multicolumn"
  /\ out.kind = "none"
  /\ out' = PrintMulticolumn(alist, term)
  /\ pc' = "printed"
  /\ UNCHANGED << args, isatty, status, code, exc, stdout, stderr, queries,
                  alist, term >>
  /\ UNCHANGED gsVars /\ UNCHANGED navVars

InitCol ==
  /\ alist \in SeqsUpTo(ColStrings, MaxItems)
  /\ term \in Terms
  /\ out = [kind |-> "none", rows |-> <<>>]
  /\ pc = "print_multicolumn"
  /\ args = [movie |-> FALSE, show |-> FALSE, name |-> FALSE, episode |-> "",
             resolution |-> "", username |-> FALSE, password |-> FALSE,
             servername |-> ""]
  /\ isatty = FALSE
  /\ status = "running" /\ code = 0 /\ exc = ""
  /\ stdout = <<>> /\ stderr = {} /\ steps = <<>> /\ queries = <<>>
  /\ username = FALSE /\ password = FALSE /\ servername = ""
  /\ resources = <<>> /\ ip = "" /\ idx = 1 /\ server = "unset"
  /\ site = "" /\ options = <<>> /\ sel = None /\ caller = 0
  /\ showarg = "str" /\ show = NoShow /\ episode = None /\ depth = 0
  /\ item = NoItem

NextCol == CallPrintMulticolumn

SpecCol == InitCol /\ [][NextCol]_vars

\* the cells of a grid read column by column, top to bottom
RECURSIVE ColumnsFrom(_, _)
ColumnsFrom(rows, c) ==
  IF c > Len(rows[1]) THEN <<>>
  ELSE [r \in 1..Len(rows) |-> rows[r][c]] \o ColumnsFrom(rows, c + 1)

ColumnMajor(rows) == ColumnsFrom(rows, 1)

(***************************************************************************)
(* Properties                                                              *)
(***************************************************************************)
Last(q) == q[Len(q)]

\* the positions of get_server
GetServerPcs == {"get_server", "username", "password", "signin",
                 "servername", "named", "resolve", "search"}

\* C1: the only thing ever written to stdout is the single stream-URL line
\* of a successful run; listings, prompts and diagnostics never are.
C1_StdoutOnlyUrl ==
  /\ Len(stdout) <= 1
  /\ \A i \in 1..Len(stdout) : stdout[i].kind = "url"

\* C2: a run whose lookup returned 50 (no exact match, no search result)
\* ends with exit code 50 and nothing on stdout, not with an unhandled
\* error and not with exit code 0.
C2_NotFoundExits50 ==
  (pc = "exit" /\ item = Code50)
    => (status = "returned" /\ code = 50 /\ stdout = <<>>)

\* C3: a catalog query is issued only after get_server has returned a
\* connected server handle, and a run in which get_server returned 10 ends
\* with main returning 10 and no catalog query made.
C3_ServerBeforeQueries ==
  /\ queries # <<>> => (server = "PlexServer" /\ pc \notin GetServerPcs)
  /\ (server = "10" /\ pc = "exit")
       => (status = "returned" /\ code = 10 /\ queries = <<>>)

\* get_server returned 10 although a mode and a name were given, and main
\* has ended
C3_Witness ==
  /\ pc = "exit" /\ server = "10" /\ code = 10
  /\ args.movie /\ args.name

\* the place of a call in get_server's order of fallbacks
StepRank(op) ==
  CASE op = "PlexServer" -> 1
    [] op \in {"prompt_username", "getpass"} -> 2
    [] op = "signin" -> 3
    [] op \in {"resources", "prompt_servername"} -> 4
    [] op \in {"getResource", "connect_named"} -> 5
    [] op \in {"gethostbyname", "connect"} -> 6

\* C4: get_server's calls come in the order anonymous connection,
\* credential prompts, sign-in, named-resource connection, IP discovery;
\* anything after the anonymous connection happens only if that failed,
\* and the discovery only if no named resource was tried. An anonymous
\* connection that succeeds is the whole of get_server: the handle is
\* returned with no prompt, sign-in, listing or resolution.
C4_FallbackOrder ==
  steps # <<>> =>
    /\ steps[1].op = "PlexServer"
    /\ \A i, j \in 1..Len(steps) :
         i < j => /\ StepRank(steps[i].op) <= StepRank(steps[j].op)
                  /\ steps[j].op # "PlexServer"
    /\ steps[1].ok => /\ Len(steps) = 1
                      /\ pc = "dispatch" /\ server = "PlexServer"
                      /\ stderr = {}
    /\ ~ \E i, j \in 1..Len(steps) :
           steps[i].op = "getResource" /\ StepRank(steps[j].op) = 6

\* the anonymous connection succeeded with username, password and server
\* name all supplied, and get_server has returned
C4_Witness ==
  /\ pc = "dispatch"
  /\ steps = << Ev("PlexServer") >>
  /\ args.username /\ args.password /\ args.servername # ""

\* the account was signed in to
SignedIn == \E i \in 1..Len(steps) : steps[i].op = "signin" /\ steps[i].ok

\* C5: with the anonymous connection failed and an account that sees no
\* server, get_server returns 10 and raises nothing, whatever the server
\* name and the URI (a run the user interrupts at a prompt aside).
C5_NoResourcesReturns10 ==
  ( /\ SignedIn /\ resources = <<>>
    /\ pc \in {"dispatch", "exit"}
    /\ ~ (status = "returned" /\ code = 1) )
    => (server = "10" /\ status # "raised")

\* C6: for an episode argument S<season>E<episode>, lookup_episode returns
\* the episode with that season number and that episode number.
C6_SeasonEpisode ==
  ( /\ pc = "print_url" /\ item.kind = "episode"
    /\ episode # None /\ ReMatch(episode.str).ok )
    => /\ PyInt(item.ep.parentIndex) = PyInt(ReMatch(episode.str).g1)
       /\ PyInt(item.ep.index) = PyInt(ReMatch(episode.str).g2)

\* C7: for a non-empty list and any terminal width, print_multicolumn
\* prints a grid (or one item a line) whose cells, read column by column,
\* are the list in its order followed by empty padding only; it does not
\* end with a division by zero.
C7_GridKeepsList ==
  (out.kind # "none" /\ Len(alist) > 0 /\ TerminalWidth(term).num)
    => /\ out.kind \in {"table", "lines"}
       /\ LET cells == ColumnMajor(out.rows)
          IN /\ Len(cells) >= Len(alist)
             /\ SubSeq(cells, 1, Len(alist)) = alist
             /\ \A i \in (Len(alist) + 1)..Len(cells) : cells[i] = ""

\* C8, for an episode name with several candidates: without an exact title
\* match and without an interactive terminal the lookup returns 50 and
\* ends with no error; a prompt is issued only on an interactive terminal
\* and for more than one candidate.
C8_PipedReturns50 ==
  /\ pc = "choose_prompt" => (isatty /\ Len(options) > 1)
  /\ ( /\ ~isatty /\ site = "episode_search" /\ Len(options) > 1
       /\ pc \in {"print_url", "exit"} )
       => (item = Code50 /\ status # "raised")

\* C9: with -r given, every stream URL printed was built with that
\* resolution, and the print of a chosen episode does not fail.
C9_ResolutionPassed ==
  /\ \A i \in 1..Len(stdout) :
       (stdout[i].kind = "url" /\ args.resolution # "")
         => stdout[i].res = args.resolution
  /\ exc # "NameError"

\* C10: the handle the IP discovery returns is that of a resource whose
\* base URI has the target IP, the first such in listing order that
\* connects; a resource at another address is not returned.
C10_FirstMatchingIp ==
  (pc = "dispatch" /\ steps # <<>> /\ Last(steps).op = "connect")
    => /\ server = "PlexServer"
       /\ Last(steps).ok /\ Last(steps).ip = ip
       /\ \A k \in 1..(Len(steps) - 1) :
            steps[k].op = "connect" => ~(steps[k].ok /\ steps[k].ip = ip)

=============================================================================
